---- MODULE Spec2Model ----
(***************************************************************************)
(* FileDimension: the dim_file table, the path resolver                    *)
(* (ensure_path_exists), the reconciler (process_directory), the pruner    *)
(* (prune_database) and the duplicate query (find_duplicate_sets).         *)
(*                                                                         *)
(* A row of public.dim_file is a record; the table is a function from ids  *)
(* to rows.  `committed' is the table as committed, `store' is the table   *)
(* as the open session sees it (committed rows plus uncommitted writes).   *)
(* Paths are pathlib `parts' tuples: <<"/", "a", "b">> is /a/b.            *)
(***************************************************************************)
EXTENDS Integers, Sequences, FiniteSets, TLC

\* ---------------------------------------------------------------- bounds
MaxId == 3          \* ids the identity column hands out in one behaviour
MaxPathId == 5      \* the same, in the behaviours of SpecPaths
MaxDepth == 2       \* directory components below the root in a path
MaxStream == 3      \* entries one scan consumes
MaxLimit == 2       \* largest LIMIT passed to find_duplicate_sets
MaxBatchStream == 502   \* entries in the stream of the flat scan (SpecBatch)

\* ------------------------------------------------------------- constants
BatchSize == 250    \* commit after the entries whose index is a multiple

NULL == 0           \* SQL NULL in an id column (ids start at 1)
NoVal == -1         \* SQL NULL in a numeric column
NoHash == "NULL"    \* SQL NULL in file_hash / None from calculate_sha384
NoMime == "NULL"    \* SQL NULL in mimetype
NoTime == <<>>      \* SQL NULL in modified_at

Names == {"a", "b"}

\* what os.stat reports of a file: a datetime is <<whole seconds, microseconds>>
StatA == [file_size |-> 1, device_id |-> 1, inode |-> 41, modified_at |-> <<0, 0>>]
StatB == [file_size |-> 2, device_id |-> 1, inode |-> 42, modified_at |-> <<0, 1>>]
StatC == [file_size |-> 1, device_id |-> 1, inode |-> 41, modified_at |-> <<1, 0>>]
StatD == [file_size |-> 3, device_id |-> 1, inode |-> 43, modified_at |-> <<0, 0>>]

\* what a scan can observe of one file: its fingerprint and its stat
Observed ==
    { [file_hash |-> "h1", stat |-> StatA], [file_hash |-> "h1", stat |-> StatB],
      [file_hash |-> "h1", stat |-> StatC], [file_hash |-> "h2", stat |-> StatA],
      [file_hash |-> NoHash, stat |-> StatA] }

\* values of max_files_override
MaxFilesValues == {-1, 1}

\* --------------------------------------------------------------- helpers
RECURSIVE SeqsUpTo(_)
SeqsUpTo(n) ==
    IF n = 0 THEN {<<>>}
    ELSE LET S == SeqsUpTo(n - 1)
         IN  S \cup {Append(s, x) : s \in {t \in S : Len(t) = n - 1}, x \in Names}

\* absolute directory paths of at most MaxDepth components below the root
AbsPaths == {<<"/">> \o s : s \in SeqsUpTo(MaxDepth)}

\* a path as the caller writes it may end in a slash: an empty last component
SlashedPaths == {Append(p, "") : p \in AbsPaths \ {<<"/">>}}

IsComponent(x) == x # ""

\* Path(p).parts, and str(Path(p)): empty components are dropped
PathParts(path) == SelectSeq(path, IsComponent)

\* the paths that do not start at the root, the empty path '.' included
RelativePaths == SeqsUpTo(MaxDepth)

\* a test that takes every path for an absolute one
IsAbsoluteAlways(parts) == TRUE

\* Path.is_absolute()
IsAbsolute(parts) == Len(parts) > 0 /\ parts[1] = "/"

\* datetime.timestamp(): the float instant of a stored datetime
Timestamp(dt) == dt

\* int(ts): the whole seconds of a timestamp (a NULL datetime has none: the
\* loop body raises before it takes them)
IntTs(ts) == IF ts = NoTime THEN NoVal ELSE ts[1]

EmptyCache == [p \in {} |-> NULL]

\* the <<path, id>> pairs a cache holds
CacheEntries(cache) == {<<p, cache[p]>> : p \in DOMAIN cache}

\* ------------------------------------------------------------------ rows
\* a directory INSERT that leaves is_directory to the column default (FALSE)
DirRowAsFile(parent_id, name) ==
    [parent_id |-> parent_id, file_name |-> name, is_directory |-> FALSE,
     file_hash |-> NoHash, file_size |-> NoVal, device_id |-> NoVal,
     inode |-> NoVal, modified_at |-> NoTime, mimetype |-> NoMime]

\* a directory INSERT that does not bind parent_id
DirRowNoParent(parent_id, name) ==
    [parent_id |-> NULL, file_name |-> name, is_directory |-> TRUE,
     file_hash |-> NoHash, file_size |-> NoVal, device_id |-> NoVal,
     inode |-> NoVal, modified_at |-> NoTime, mimetype |-> NoMime]

\* INSERT INTO public.dim_file (parent_id, file_name, is_directory)
\* VALUES (:parent_id, :name, TRUE)
DirRow(parent_id, name) ==
    [parent_id |-> parent_id, file_name |-> name, is_directory |-> TRUE,
     file_hash |-> NoHash, file_size |-> NoVal, device_id |-> NoVal,
     inode |-> NoVal, modified_at |-> NoTime, mimetype |-> NoMime]

\* a file row with the device_id and inode parameters bound the wrong way
FileRowSwapped(parent_id, e, file_hash) ==
    [parent_id |-> parent_id, file_name |-> e.file_name, is_directory |-> FALSE,
     file_hash |-> file_hash, file_size |-> e.file_size,
     device_id |-> e.inode, inode |-> e.device_id,
     modified_at |-> e.modified_at, mimetype |-> e.mimetype]

\* INSERT INTO public.dim_file (...) VALUES (:parent_id, :file_name, FALSE, ...)
FileRow(parent_id, e, file_hash) ==
    [parent_id |-> parent_id, file_name |-> e.file_name, is_directory |-> FALSE,
     file_hash |-> file_hash, file_size |-> e.file_size,
     device_id |-> e.device_id, inode |-> e.inode,
     modified_at |-> e.modified_at, mimetype |-> e.mimetype]

\* INSERT ... (file_name, is_directory, parent_id) VALUES ('/', TRUE, NULL)
RootRow ==
    [parent_id |-> NULL, file_name |-> "/", is_directory |-> TRUE,
     file_hash |-> NoHash, file_size |-> NoVal, device_id |-> NoVal,
     inode |-> NoVal, modified_at |-> NoTime, mimetype |-> NoMime]

\* the info_dict find_files yields for file n of directory p, with the
\* fingerprint calculate_sha384 returns for it (NoHash: None)
Entry(p, n, o) ==
    [parent_path |-> p, file_name |-> n, file_hash |-> o.file_hash,
     file_size |-> o.stat.file_size, device_id |-> o.stat.device_id,
     inode |-> o.stat.inode, modified_at |-> o.stat.modified_at,
     mtime_ts |-> Timestamp(o.stat.modified_at), mimetype |-> "text"]

\* the directories the scans of Spec find files in: the root and the
\* directories in it
ScanPaths == {p \in AbsPaths : Len(p) <= 2}

Entries == {Entry(p, n, o) : p \in ScanPaths, n \in Names, o \in Observed}

\* the entries of SpecPaths: every file has the same name and looks the same
PathEntries ==
    {Entry(p, "a", [file_hash |-> "h1", stat |-> StatA]) : p \in AbsPaths}

\* ------------------------------------------------------------- the table
\* a table without the unique constraint
KeyNeverTaken(st, parent_id, name) == FALSE

\* UNIQUE (parent_id, file_name): whether a row with this key is present
\* (a NULL parent_id never conflicts)
KeyTaken(st, parent_id, name) ==
    /\ parent_id # NULL
    /\ \E id \in DOMAIN st : st[id].parent_id = parent_id /\ st[id].file_name = name

\* INSERT ... RETURNING id: the new table, or the table unchanged when the
\* unique constraint rejects the row (ok = FALSE)
InsertRow(st, nid, row) ==
    IF KeyTaken(st, row.parent_id, row.file_name)
    THEN [ok |-> FALSE, store |-> st, id |-> NULL, nextId |-> nid]
    ELSE [ok |-> TRUE, store |-> st @@ (nid :> row), id |-> nid, nextId |-> nid + 1]

\* a root lookup that yields NULL for a table without a root
RootIdsOrNull(st) ==
    LET roots == {id \in DOMAIN st : st[id].parent_id = NULL}
    IN  IF roots = {} THEN {NULL} ELSE roots

\* SELECT id ... WHERE parent_id IS NULL
RootIds(st) == {id \in DOMAIN st : st[id].parent_id = NULL}

\* the child lookup without its parent_id condition
ChildDirIdsAnyParent(st, parent_id, name) ==
    {id \in DOMAIN st : st[id].file_name = name /\ st[id].is_directory}

\* SELECT id ... WHERE parent_id = :parent_id AND file_name = :name
\*                 AND is_directory = TRUE
ChildDirIds(st, parent_id, name) ==
    {id \in DOMAIN st : /\ st[id].parent_id = parent_id
                        /\ st[id].file_name = name
                        /\ st[id].is_directory}

\* SELECT id, file_hash, modified_at ... WHERE parent_id = :parent_id
\*                 AND file_name = :file_name
ExistingIds(st, parent_id, name) ==
    {id \in DOMAIN st : st[id].parent_id = parent_id /\ st[id].file_name = name}

\* a cache read that returns the root's identity on every hit
CachedIdOfRoot(cache, current) == cache[<<"/">>]

\* cache[current_path_str], cache[absolute_path]
CachedId(cache, current) == cache[current]

\* a cache write that stores the identity one too low
CachedOffByOne(cache, current, id) == cache @@ (current :> id - 1)

\* cache[current_path_str] = parent_id
Cached(cache, current, id) == cache @@ (current :> id)

\* ---------------------------------------------------- ensure_path_exists
\* the walk over path_obj.parts[k..], database.py (with the cache)
RECURSIVE WalkParts(_, _, _, _, _, _)
WalkParts(st, nid, cache, parts, k, parent_id) ==
    IF k > Len(parts)
    THEN [err |-> "none", id |-> parent_id, store |-> st, nextId |-> nid,
          cache |-> cache]
    ELSE LET current == SubSeq(parts, 1, k)
             found == ChildDirIds(st, parent_id, parts[k])
         IN  IF current \in DOMAIN cache
             THEN WalkParts(st, nid, cache, parts, k + 1, CachedId(cache, current))
             ELSE IF Cardinality(found) > 1
             THEN [err |-> "multiple", id |-> NULL, store |-> st,
                   nextId |-> nid, cache |-> cache]
             ELSE IF found # {}
             THEN LET child == CHOOSE id \in found : TRUE
                  IN  WalkParts(st, nid, Cached(cache, current, child), parts,
                                k + 1, child)
             ELSE LET ins == InsertRow(st, nid, DirRow(parent_id, parts[k]))
                  IN  IF ~ins.ok
                      THEN [err |-> "integrity", id |-> NULL, store |-> st,
                            nextId |-> ins.nextId, cache |-> cache]
                      ELSE WalkParts(ins.store, ins.nextId,
                                     Cached(cache, current, ins.id), parts,
                                     k + 1, ins.id)

\* database.ensure_path_exists(db, absolute_path, cache)
EnsurePathExists(st, nid, absolute_path, cache) ==
    IF absolute_path \in DOMAIN cache
    THEN [err |-> "none", id |-> CachedId(cache, absolute_path), store |-> st,
          nextId |-> nid, cache |-> cache]
    ELSE IF ~IsAbsolute(PathParts(absolute_path))
    THEN [err |-> "usage", id |-> NULL, store |-> st, nextId |-> nid,
          cache |-> cache]
    ELSE IF Cardinality(RootIds(st)) # 1
    THEN [err |-> "root", id |-> NULL, store |-> st, nextId |-> nid,
          cache |-> cache]
    ELSE LET root_id == CHOOSE id \in RootIds(st) : TRUE
             primed == [p \in DOMAIN cache \cup {<<"/">>} |->
                          IF p = <<"/">> THEN root_id ELSE cache[p]]
         IN  WalkParts(st, nid, primed, PathParts(absolute_path), 2, root_id)

\* the walk of core.ensure_path_exists (no cache); `trail' collects the
\* <<prefix, id>> pairs the walk has adopted as parent_id
RECURSIVE WalkPartsCore(_, _, _, _, _, _)
WalkPartsCore(st, nid, parts, k, parent_id, trail) ==
    IF k > Len(parts)
    THEN [err |-> "none", id |-> parent_id, store |-> st, nextId |-> nid,
          trail |-> trail]
    ELSE LET current == SubSeq(parts, 1, k)
             found == ChildDirIds(st, parent_id, parts[k])
         IN  IF Cardinality(found) > 1
             THEN [err |-> "multiple", id |-> NULL, store |-> st,
                   nextId |-> nid, trail |-> trail]
             ELSE IF found # {}
             THEN LET child == CHOOSE id \in found : TRUE
                  IN  WalkPartsCore(st, nid, parts, k + 1, child,
                                    trail \cup {<<current, child>>})
             ELSE LET ins == InsertRow(st, nid, DirRow(parent_id, parts[k]))
                  IN  IF ~ins.ok
                      THEN [err |-> "integrity", id |-> NULL, store |-> st,
                            nextId |-> ins.nextId, trail |-> trail]
                      ELSE WalkPartsCore(ins.store, ins.nextId, parts, k + 1,
                                         ins.id, trail \cup {<<current, ins.id>>})

\* core.ensure_path_exists(session, absolute_path)
EnsurePathExistsCore(st, nid, absolute_path) ==
    IF ~IsAbsolute(PathParts(absolute_path))
    THEN [err |-> "usage", id |-> NULL, store |-> st, nextId |-> nid,
          trail |-> {}]
    ELSE IF Cardinality(RootIds(st)) > 1
    THEN [err |-> "multiple", id |-> NULL, store |-> st, nextId |-> nid,
          trail |-> {}]
    ELSE IF RootIds(st) = {}
    THEN [err |-> "root", id |-> NULL, store |-> st, nextId |-> nid,
          trail |-> {}]
    ELSE LET root_id == CHOOSE id \in RootIds(st) : TRUE
         IN  WalkPartsCore(st, nid, PathParts(absolute_path), 2, root_id,
                           {<<(<<"/">>), root_id>>})

\* ------------------------------------------------------ process_directory
\* an UPDATE that leaves modified_at out of its SET list
UpdateRowKeepsTime(st, file_id, e, file_hash) ==
    [st EXCEPT ![file_id] =
        [@ EXCEPT !.file_hash = file_hash, !.file_size = e.file_size,
                  !.mimetype = e.mimetype, !.inode = e.inode,
                  !.device_id = e.device_id]]

\* the UPDATE without its WHERE clause
UpdateRowNoWhere(st, file_id, e, file_hash) ==
    [id \in DOMAIN st |->
        [st[id] EXCEPT !.file_hash = file_hash, !.file_size = e.file_size,
                       !.modified_at = e.modified_at, !.mimetype = e.mimetype,
                       !.inode = e.inode, !.device_id = e.device_id]]

\* UPDATE ... SET file_hash, file_size, modified_at, mimetype, inode,
\* device_id WHERE id = :file_id
UpdateRow(st, file_id, e, file_hash) ==
    [st EXCEPT ![file_id] =
        [@ EXCEPT !.file_hash = file_hash, !.file_size = e.file_size,
                  !.modified_at = e.modified_at, !.mimetype = e.mimetype,
                  !.inode = e.inode, !.device_id = e.device_id]]

\* attribute access that never fails
RaisesNever(row) == FALSE

\* existing_file.modified_at.timestamp() and existing_file.file_hash.decode()
\* raise AttributeError on a NULL column
RaisesOnRow(row) == row.modified_at = NoTime \/ row.file_hash = NoHash

\* the update test of the loop body
NeedsUpdate(row, e, file_hash) ==
    \/ row.file_hash # file_hash
    \/ IntTs(Timestamp(row.modified_at)) # IntTs(e.mtime_ts)

\* one pass of the loop body on entry e: resolve the parent, look the file
\* up, insert, update or skip
ProcessEntry(st, nid, cache, e) ==
    LET r == EnsurePathExists(st, nid, e.parent_path, cache)
        file_hash == e.file_hash
        existing == ExistingIds(r.store, r.id, e.file_name)
    IN  IF r.err # "none"
        THEN [err |-> r.err, op |-> r.err, store |-> r.store,
              nextId |-> r.nextId, cache |-> r.cache]
        ELSE IF existing = {}
        THEN LET ins == InsertRow(r.store, r.nextId, FileRow(r.id, e, file_hash))
             IN  [err |-> IF ins.ok THEN "none" ELSE "integrity",
                  op |-> IF ins.ok THEN "insert" ELSE "integrity",
                  store |-> ins.store, nextId |-> ins.nextId, cache |-> r.cache]
        ELSE LET file_id == CHOOSE id \in existing : TRUE
                 row == r.store[file_id]
             IN  IF RaisesOnRow(row)
                 THEN [err |-> "attribute", op |-> "attribute", store |-> r.store,
                       nextId |-> r.nextId, cache |-> r.cache]
                 ELSE IF NeedsUpdate(row, e, file_hash)
                 THEN [err |-> "none", op |-> "update",
                       store |-> UpdateRow(r.store, file_id, e, file_hash),
                       nextId |-> r.nextId, cache |-> r.cache]
                 ELSE [err |-> "none", op |-> "skip", store |-> r.store,
                       nextId |-> r.nextId, cache |-> r.cache]

\* ------------------------------------------------- get_full_path_for_id
\* the parts of the path of a row: <<>> for a missing id, <<"/">> for the root
RECURSIVE GetFullPathForId(_, _)
GetFullPathForId(st, file_id) ==
    IF file_id \notin DOMAIN st THEN <<>>
    ELSE IF st[file_id].parent_id = NULL THEN <<"/">>
    ELSE Append(GetFullPathForId(st, st[file_id].parent_id), st[file_id].file_name)

\* a join that drops the name
JoinPathKeepsParent(parent_path, file_name) == parent_path

\* str(Path(parent_path) / row.file_name)
JoinPath(parent_path, file_name) == PathParts(Append(parent_path, file_name))

RECURSIVE GetFullPath(_, _, _)
\* get_full_path_for_id(db, file_id, cache): the path returned and the
\* identity-to-path cache after the call
GetFullPath(st, file_id, cache) ==
    IF file_id \in DOMAIN cache
    THEN [path |-> cache[file_id], cache |-> cache]
    ELSE IF file_id \notin DOMAIN st
    THEN [path |-> <<>>, cache |-> cache]
    ELSE IF st[file_id].parent_id = NULL
    THEN [path |-> <<"/">>, cache |-> cache @@ (file_id :> <<"/">>)]
    ELSE LET up == GetFullPath(st, st[file_id].parent_id, cache)
             path == JoinPath(up.path, st[file_id].file_name)
         IN  [path |-> path, cache |-> up.cache @@ (file_id :> path)]

\* ---------------------------------------------------------- prune_database
\* the SELECT of the pruner without its is_directory condition
AllIds(st) == DOMAIN st

\* SELECT id ... WHERE is_directory = FALSE
FileIds(st) == {id \in DOMAIN st : ~st[id].is_directory}

\* a pruner that collects every file record
IdsToDeleteAll(st, disk) == {id \in DOMAIN st : ~st[id].is_directory}

\* the ids collected for deletion, given the paths that exist on disk
IdsToDelete(st, disk) ==
    {id \in FileIds(st) : GetFullPathForId(st, id) \notin disk}

\* DELETE ... WHERE id = ANY(:ids)
DeleteRows(st, ids) == [id \in DOMAIN st \ ids |-> st[id]]

\* ----------------------------------------------------- find_duplicate_sets
\* WHERE file_hash IS NOT NULL GROUP BY file_hash
GroupRows(st, h) == {id \in DOMAIN st : st[id].file_hash = h}

GroupHashes(st) == {st[id].file_hash : id \in DOMAIN st} \ {NoHash}

\* COUNT(DISTINCT (device_id, inode))
DistinctPairs(st, h) ==
    {<<st[id].device_id, st[id].inode>> : id \in GroupRows(st, h)}

RECURSIVE SumSize(_, _)
\* SUM(file_size) over a set of rows (NULL sizes are skipped)
SumSize(st, ids) ==
    IF ids = {} THEN 0
    ELSE LET id == CHOOSE x \in ids : TRUE
             v == IF st[id].file_size = NoVal THEN 0 ELSE st[id].file_size
         IN  v + SumSize(st, ids \ {id})

\* HAVING COUNT(*) > 1
HavingSeveralRows(st) == {h \in GroupHashes(st) : Cardinality(GroupRows(st, h)) > 1}

\* HAVING COUNT(DISTINCT (device_id, inode)) > 1
HavingHashes(st) == {h \in GroupHashes(st) : Cardinality(DistinctPairs(st, h)) > 1}

\* encode(file_hash, 'hex'): the hexadecimal digits of the stored bytes
\* (NULL for a NULL hash)
Hex(h) ==
    CASE h = "h1" -> "6831"
      [] h = "h2" -> "6832"
      [] OTHER -> NoHash

\* a result row whose sum leaves one copy, the smallest, out
DupRowSpareCopies(st, h) ==
    LET ids == {id \in DOMAIN st : st[id].file_hash = h}
        least == CHOOSE id \in ids : \A o \in ids : st[id].file_size <= st[o].file_size
    IN  [file_hash_hex |-> Hex(h), duplicate_count |-> Cardinality(ids),
         total_wasted_space |-> SumSize(st, ids \ {least})]

\* one row of the result
DupRow(st, h) ==
    [file_hash_hex |-> Hex(h), duplicate_count |-> Cardinality(GroupRows(st, h)),
     total_wasted_space |-> SumSize(st, GroupRows(st, h))]

\* ORDER BY total_wasted_space ASC
IsOrderedAscending(rows) ==
    \A j \in 1..(Len(rows) - 1) :
        rows[j].total_wasted_space <= rows[j + 1].total_wasted_space

\* ORDER BY total_wasted_space DESC (rows of equal sum come in any order)
IsOrdered(rows) ==
    \A j \in 1..(Len(rows) - 1) :
        rows[j].total_wasted_space >= rows[j + 1].total_wasted_space

\* the results the query may return: every ordering of the groups, cut to
\* the first `limit' rows
FindDuplicateSets(st, limit) ==
    LET hs == HavingHashes(st)
        n == Cardinality(hs)
        orders == {f \in [1..n -> hs] :
                     /\ \A h \in hs : \E j \in 1..n : f[j] = h
                     /\ IsOrdered([j \in 1..n |-> DupRow(st, f[j])])}
        m == IF limit < n THEN limit ELSE n
    IN  {[j \in 1..m |-> DupRow(st, f[j])] : f \in orders}

\* find_dupes: SELECT id ... WHERE encode(file_hash, 'hex') = :hash
HashRecords(st, hash) ==
    {id \in DOMAIN st : st[id].file_hash # NoHash /\ Hex(st[id].file_hash) = hash}

\* ================================================================ state
VARIABLES
    committed,   \* public.dim_file as committed: id -> row
    store,       \* the table as the open session sees it
    nextId,      \* next value of the identity column
    pc,          \* "idle", or "loop" inside process_directory
    i,           \* enumerate() index of the next entry
    max_files,   \* max_files_override of the running scan
    path_cache,  \* path_cache of the running scan: parts -> id
    resolved,    \* history: every <<path, id>> a resolver has returned
    dupes,       \* rows of the last find_duplicate_sets, and their members
    reported,    \* what the scan command last logged about its scan
    last,        \* what the last step did
    twin,        \* a scan and its repetition on the same stream (SpecTwice)
    sessions,    \* the concurrent resolutions in flight, one per session
    report       \* the find_dupes command in flight: its lists and lines

vars == <<committed, store, nextId, pc, i, max_files, path_cache, resolved,
          dupes, reported, last, twin, sessions, report>>

\* no query has been run
\* the sessions that resolve paths side by side
Sessions == {1, 2}

EmptyTable == [id \in {} |-> NULL]

\* no resolution in flight
NoSessions ==
    [s \in Sessions |-> [pc |-> "none", parts |-> <<>>, k |-> 0,
                         parent_id |-> NULL, rows |-> EmptyTable,
                         fresh |-> FALSE, result |-> NULL]]

NoDupes == [limit |-> 0, rows |-> <<>>, members |-> <<>>]

\* an identity-to-path cache with nothing in it
EmptyIdCache == [id \in {} |-> <<>>]

\* find_dupes is not running
NoReport == [pc |-> "none", sets |-> <<>>, ids |-> <<>>, filenames |-> <<>>,
             cache |-> EmptyIdCache, lines |-> <<>>]

\* no scan is being repeated
NoTwin == [phase |-> "none", stream |-> <<>>, m |-> -1, base |-> <<>>,
           baseId |-> 0, failed |-> FALSE, start |-> <<>>, startId |-> 0]

Init ==
    /\ committed = (1 :> RootRow)
    /\ store = (1 :> RootRow)
    /\ nextId = 2
    /\ pc = "idle"
    /\ i = 0
    /\ max_files = -1
    /\ path_cache = EmptyCache
    /\ resolved = {}
    /\ dupes = NoDupes
    /\ reported = "none"
    /\ last = "init"
    /\ twin = NoTwin
    /\ sessions = NoSessions
    /\ report = NoReport

\* process_directory is entered: a new path_cache, the generator is created
ScanStart(m) ==
    /\ pc = "idle"
    /\ pc' = "loop"
    /\ i' = 0
    /\ max_files' = m
    /\ path_cache' = EmptyCache
    /\ dupes' = NoDupes
    /\ reported' = "none"
    /\ last' = "start"
    /\ UNCHANGED <<committed, store, nextId>>

\* process_directory as exported: under @logger.catch an exception raised
\* by the function is logged and the call returns None
LoggerCatch(outcome) == "returned"

\* the scan command: the log line after the call of process_directory, which
\* is reached unless the call raises
ScanCommand(outcome) == IF outcome = "raised" THEN "error" ELSE "success"

\* the session after db.rollback() keeps its writes
RolledBackKeepsWrites(st, com) == st

\* the session after db.rollback(): what was committed
RolledBack(st, com) == com

\* a loop exit that leaves the table as last committed
FinalCommitSkipped(st, com) == com

\* db.commit() after the loop: the table holds what the session wrote
FinalCommit(st, com) == st

\* a cap test that takes 0 for a cap
CapReachedFromZero == max_files >= 0 /\ i >= max_files

\* if max_files > 0 and i >= max_files
CapReached == max_files > 0 /\ i >= max_files

\* the scan is over: the session is closed, the cache is dropped
ScanIsOver ==
    /\ pc' = "idle"
    /\ i' = 0
    /\ max_files' = -1
    /\ path_cache' = EmptyCache

\* a commit after every entry
AtEveryEntry(index) == TRUE

\* if i % 250 == 0
AtBatchBoundary(index) == index % BatchSize = 0

\* the loop body on the next entry of the generator, in a stream of at most
\* maxlen entries
ScanStepWithin(e, maxid, maxlen) ==
    /\ pc = "loop"
    /\ i < maxlen
    /\ ~CapReached
    /\ LET r == ProcessEntry(store, nextId, path_cache, e)
       IN  /\ r.nextId <= maxid + 1
           /\ nextId' = r.nextId
           /\ last' = r.op
           /\ IF r.err = "none"
              THEN /\ store' = r.store
                   /\ committed' = IF AtBatchBoundary(i) THEN r.store ELSE committed
                   /\ pc' = "loop"
                   /\ i' = i + 1
                   /\ path_cache' = r.cache
                   /\ UNCHANGED <<max_files, reported>>
              ELSE \* except: db.rollback(); raise
                   /\ store' = RolledBack(r.store, committed)
                   /\ UNCHANGED committed
                   /\ ScanIsOver
                   /\ reported' = ScanCommand(LoggerCatch("raised"))
    /\ UNCHANGED dupes

ScanStepUpTo(e, maxid) == ScanStepWithin(e, maxid, MaxStream)

ScanStep(e) == ScanStepUpTo(e, MaxId)

\* the generator yields an entry past the cap: break, then the final commit
ScanBreak ==
    /\ pc = "loop"
    /\ CapReached
    /\ committed' = FinalCommit(store, committed)
    /\ ScanIsOver
    /\ last' = "break"
    /\ reported' = ScanCommand(LoggerCatch("returned"))
    /\ UNCHANGED <<store, nextId, dupes>>

\* the generator is exhausted: the final commit
ScanEnd ==
    /\ pc = "loop"
    /\ committed' = FinalCommit(store, committed)
    /\ ScanIsOver
    /\ last' = "end"
    /\ reported' = ScanCommand(LoggerCatch("returned"))
    /\ UNCHANGED <<store, nextId, dupes>>

\* core.py run as a script: ensure_path_exists, then commit, or rollback
ResolveCoreUpTo(p, maxid) ==
    /\ pc = "idle"
    /\ LET r == EnsurePathExistsCore(store, nextId, p)
       IN  /\ r.nextId <= maxid + 1
           /\ nextId' = r.nextId
           /\ IF r.err = "none"
              THEN /\ store' = r.store
                   /\ committed' = r.store
                   /\ last' = "resolve"
              ELSE /\ UNCHANGED <<store, committed>>
                   /\ last' = r.err
    /\ dupes' = NoDupes
    /\ reported' = "none"
    /\ UNCHANGED <<pc, i, max_files, path_cache>>

ResolveCore(p) == ResolveCoreUpTo(p, MaxId)

\* prune_database, with `disk' the recorded file paths that still exist
PruneDatabase(disk) ==
    /\ pc = "idle"
    /\ LET ids_to_delete == IdsToDelete(store, disk)
       IN  IF ids_to_delete = {}
           THEN /\ UNCHANGED <<store, committed>>
                /\ last' = "prune-none"
           ELSE /\ store' = DeleteRows(store, ids_to_delete)
                /\ committed' = store'
                /\ last' = "prune"
    /\ dupes' = NoDupes
    /\ reported' = "none"
    /\ UNCHANGED <<nextId, pc, i, max_files, path_cache>>

\* find_duplicate_sets(db, limit)
FindDupes(limit) ==
    /\ pc = "idle"
    /\ \E rows \in FindDuplicateSets(store, limit) :
          dupes' = [limit |-> limit, rows |-> rows,
                    members |-> [j \in 1..Len(rows) |->
                                   HashRecords(store, rows[j].file_hash_hex)]]
    /\ last' = "find"
    /\ reported' = "none"
    /\ UNCHANGED <<committed, store, nextId, pc, i, max_files, path_cache>>

\* the file paths recorded in the table
RecordedPaths == {GetFullPathForId(store, id) : id \in FileIds(store)}

\* the history variables stay as they are
NoHistory == UNCHANGED <<resolved, twin, sessions, report>>

\* `resolved' gains what ensure_path_exists returns for the parent path of e
Resolves(e) ==
    LET d == EnsurePathExists(store, nextId, e.parent_path, path_cache)
    IN  resolved' = IF d.err = "none"
                    THEN resolved \cup {<<e.parent_path, d.id>>}
                    ELSE resolved

\* `resolved' gains what core.ensure_path_exists returns for p
ResolvesCore(p) ==
    LET c == EnsurePathExistsCore(store, nextId, p)
    IN  resolved' = IF c.err = "none" THEN resolved \cup {<<p, c.id>>}
                    ELSE resolved

Next ==
    \/ \E m \in MaxFilesValues : ScanStart(m) /\ NoHistory
    \/ \E e \in Entries : ScanStep(e) /\ NoHistory
    \/ ScanBreak /\ NoHistory
    \/ ScanEnd /\ NoHistory
    \/ \E p \in AbsPaths : ResolveCore(p) /\ NoHistory
    \/ \E disk \in SUBSET RecordedPaths : PruneDatabase(disk) /\ NoHistory

Spec == Init /\ [][Next]_vars

\* the same program on entries that differ only in their place in the
\* tree, with the record of every identity the resolvers return
NextPaths ==
    \/ ScanStart(-1) /\ NoHistory
    \/ \E e \in PathEntries :
          ScanStepUpTo(e, MaxPathId) /\ Resolves(e) /\ UNCHANGED <<twin, sessions, report>>
    \/ ScanEnd /\ NoHistory
    \/ \E p \in AbsPaths :
          ResolveCoreUpTo(p, MaxPathId) /\ ResolvesCore(p) /\ UNCHANGED <<twin, sessions, report>>
    \/ \E disk \in SUBSET RecordedPaths : PruneDatabase(disk) /\ NoHistory

SpecPaths == Init /\ [][NextPaths]_vars

\* resolutions only: uncapped scans and the stand-alone resolver, no pruning
NextResolve ==
    \/ ScanStart(-1) /\ NoHistory
    \/ \E e \in PathEntries : ScanStepUpTo(e, MaxId + 1) /\ NoHistory
    \/ ScanEnd /\ NoHistory
    \/ \E p \in AbsPaths : ResolveCoreUpTo(p, MaxId + 1) /\ NoHistory

SpecResolve == Init /\ [][NextResolve]_vars

\* ------------------------------------------------ scans under every cap
\* --max-files: unlimited, zero, and caps below the longest stream
CapValues == {-1, 0, 1, 2}

NextCap ==
    \/ \E m \in CapValues : ScanStart(m) /\ NoHistory
    \/ \E e \in PathEntries : ScanStepUpTo(e, MaxId + 1) /\ NoHistory
    \/ ScanBreak /\ NoHistory
    \/ ScanEnd /\ NoHistory

SpecCap == Init /\ [][NextCap]_vars

\* ------------------------------- tables with and without a root, any path
\* the entries of a walk from a relative root_directory: os.walk yields
\* relative directory paths
RelativeEntries ==
    {Entry(p, "a", [file_hash |-> "h1", stat |-> StatA]) : p \in RelativePaths}

\* the table is seeded with the root, or is still empty
InitSeed ==
    /\ committed \in {<<>>, (1 :> RootRow)}
    /\ store = committed
    /\ nextId = Len(committed) + 1
    /\ pc = "idle"
    /\ i = 0
    /\ max_files = -1
    /\ path_cache = EmptyCache
    /\ resolved = {}
    /\ dupes = NoDupes
    /\ reported = "none"
    /\ last = "init"
    /\ twin = NoTwin
    /\ sessions = NoSessions
    /\ report = NoReport

NextSeed ==
    \/ ScanStart(-1) /\ NoHistory
    \/ \E e \in PathEntries \cup RelativeEntries :
          ScanStepUpTo(e, MaxId + 1) /\ NoHistory
    \/ ScanEnd /\ NoHistory
    \/ \E p \in AbsPaths \cup RelativePaths :
          ResolveCoreUpTo(p, MaxId + 1) /\ NoHistory

SpecSeed == InitSeed /\ [][NextSeed]_vars

\* ------------------------------------- one scan of a large flat directory
\* the file that find_files yields at position index: the files of the root
\* directory, each named by its position
FlatEntry(index) ==
    Entry(<<"/">>, ToString(index), [file_hash |-> "h1", stat |-> StatA])

\* the scan of a table that holds the root only
NextBatch ==
    \/ last = "init" /\ ScanStart(-1) /\ NoHistory
    \/ ScanStepWithin(FlatEntry(i), MaxBatchStream, MaxBatchStream) /\ NoHistory
    \/ ScanEnd /\ NoHistory

SpecBatch == Init /\ [][NextBatch]_vars

\* ------------------------------ paths as written, resolved and rebuilt
\* the entries of a walk from a root_directory written with a final slash
SlashedEntries ==
    {Entry(p, "a", [file_hash |-> "h1", stat |-> StatA]) : p \in SlashedPaths}

\* every directory below the root is given with a final slash
NextTrip ==
    \/ ScanStart(-1) /\ NoHistory
    \/ \E e \in SlashedEntries : ScanStepUpTo(e, MaxId + 1) /\ NoHistory
    \/ ScanEnd /\ NoHistory
    \/ \E p \in SlashedPaths : ResolveCoreUpTo(p, MaxId + 1) /\ NoHistory
    \/ \E disk \in SUBSET RecordedPaths : PruneDatabase(disk) /\ NoHistory

SpecTrip == Init /\ [][NextTrip]_vars

\* ------------------------------------ two sessions resolving side by side
\* what session s reads: the committed rows and the rows it has inserted
View(s) == committed @@ sessions[s].rows

\* the session has dealt with component k: it returns after the last one
Advanced(ses, id) ==
    IF ses.k = Len(ses.parts)
    THEN [ses EXCEPT !.pc = "returned", !.parent_id = id, !.result = id]
    ELSE [ses EXCEPT !.pc = "lookup", !.parent_id = id, !.k = @ + 1]

\* ensure_path_exists is entered on path p: the root lookup
RaceStart(s, p) ==
    /\ pc = "idle"
    /\ sessions[s].pc = "none"
    /\ Cardinality(RootIds(committed)) = 1
    /\ LET root_id == CHOOSE id \in RootIds(committed) : TRUE
       IN  sessions' = [sessions EXCEPT ![s] =
                          [pc |-> "lookup", parts |-> p, k |-> 2,
                           parent_id |-> root_id, rows |-> EmptyTable,
                           fresh |-> \A id \in DOMAIN committed :
                                        GetFullPathForId(committed, id) # p,
                           result |-> NULL]]
    /\ last' = "start"
    /\ UNCHANGED <<committed, store, nextId, pc, i, max_files, path_cache,
                   dupes, reported>>

\* SELECT id ... WHERE parent_id = :parent_id AND file_name = :name AND
\* is_directory = TRUE, then `if child_id_result'
RaceLookup(s) ==
    /\ sessions[s].pc = "lookup"
    /\ LET ses == sessions[s]
           found == ChildDirIds(View(s), ses.parent_id, ses.parts[ses.k])
       IN  sessions' = [sessions EXCEPT ![s] =
                          IF found = {} THEN [ses EXCEPT !.pc = "insert"]
                          ELSE Advanced(ses, CHOOSE id \in found : TRUE)]
    /\ last' = "lookup"
    /\ UNCHANGED <<committed, store, nextId, pc, i, max_files, path_cache,
                   dupes, reported>>

\* another session holds an uncommitted row with the key: the insert waits
\* for that session to commit or to roll back
InsertWaits(s, row) ==
    \E t \in Sessions \ {s} :
        KeyTaken(sessions[t].rows, row.parent_id, row.file_name)

\* INSERT ... RETURNING id; a unique violation raises, and the session
\* rolls back
RaceInsert(s) ==
    /\ sessions[s].pc = "insert"
    /\ nextId <= MaxPathId
    /\ LET ses == sessions[s]
           row == DirRow(ses.parent_id, ses.parts[ses.k])
           ins == InsertRow(View(s), nextId, row)
       IN  /\ ~InsertWaits(s, row)
           /\ nextId' = nextId + 1
           /\ IF ins.ok
              THEN /\ sessions' = [sessions EXCEPT ![s] =
                                     Advanced([ses EXCEPT !.rows =
                                                  @ @@ (nextId :> row)], nextId)]
                   /\ last' = "insert"
              ELSE /\ sessions' = [sessions EXCEPT ![s] =
                                     [ses EXCEPT !.pc = "failed",
                                                 !.rows = EmptyTable]]
                   /\ last' = "integrity"
    /\ UNCHANGED <<committed, store, pc, i, max_files, path_cache, dupes,
                   reported>>

\* the caller commits what the resolution inserted
RaceCommit(s) ==
    /\ sessions[s].pc = "returned"
    /\ committed' = View(s)
    /\ store' = committed'
    /\ sessions' = [sessions EXCEPT ![s] =
                       [@ EXCEPT !.pc = "done", !.rows = EmptyTable]]
    /\ last' = "resolve"
    /\ UNCHANGED <<nextId, pc, i, max_files, path_cache, dupes, reported>>

\* both sessions are closed
RaceOver ==
    /\ \A s \in Sessions : sessions[s].pc \in {"done", "failed"}
    /\ sessions' = NoSessions
    /\ last' = "end"
    /\ UNCHANGED <<committed, store, nextId, pc, i, max_files, path_cache,
                   dupes, reported>>

\* the directory paths below the root
RacePaths == AbsPaths \ {<<"/">>}

NextRace ==
    \/ \E s \in Sessions, p \in RacePaths :
          RaceStart(s, p) /\ UNCHANGED <<resolved, twin, report>>
    \/ \E s \in Sessions : RaceLookup(s) /\ UNCHANGED <<resolved, twin, report>>
    \/ \E s \in Sessions : RaceInsert(s) /\ UNCHANGED <<resolved, twin, report>>
    \/ \E s \in Sessions : RaceCommit(s) /\ UNCHANGED <<resolved, twin, report>>
    \/ RaceOver /\ UNCHANGED <<resolved, twin, report>>

SpecRace == Init /\ [][NextRace]_vars

\* ------------------------------------------ a scan run twice in succession
\* find_files walks a tree: it yields every file once, and the name of a
\* file is not the name of a directory it descends into
TreeConsistent(stream, e) ==
    \A j \in 1..Len(stream) :
        LET f == stream[j]
            IsPrefix(a, b) == Len(a) <= Len(b) /\ SubSeq(b, 1, Len(a)) = a
        IN  /\ ~(f.parent_path = e.parent_path /\ f.file_name = e.file_name)
            /\ ~IsPrefix(Append(f.parent_path, f.file_name), e.parent_path)
            /\ ~IsPrefix(Append(e.parent_path, e.file_name), f.parent_path)

\* the first scan starts
FirstStart(m) ==
    /\ twin.phase \in {"none", "done"}
    /\ ScanStart(m)
    /\ twin' = [NoTwin EXCEPT !.phase = "first", !.m = m,
                              !.start = committed, !.startId = nextId]

\* the first scan handles the next file of the tree; an error ends it
FirstStep(e) ==
    /\ twin.phase = "first"
    /\ TreeConsistent(twin.stream, e)
    /\ ScanStepUpTo(e, MaxPathId)
    /\ twin' = IF pc' = "idle"
               THEN [twin EXCEPT !.stream = Append(@, e), !.phase = "between",
                                 !.base = committed', !.baseId = nextId',
                                 !.failed = TRUE]
               ELSE [twin EXCEPT !.stream = Append(@, e)]

\* the first scan ends without error
FirstEnd ==
    /\ twin.phase = "first"
    /\ (ScanEnd \/ ScanBreak)
    /\ twin' = [twin EXCEPT !.phase = "between", !.base = committed',
                            !.baseId = nextId', !.start = <<>>, !.startId = 0]

\* process_directory is called again on the unchanged tree
SecondStart ==
    /\ twin.phase = "between"
    /\ ScanStart(twin.m)
    /\ twin' = [twin EXCEPT !.phase = "second", !.start = <<>>, !.startId = 0]

\* the second scan handles the same entry as the first did at this index
SecondStep ==
    /\ twin.phase = "second"
    /\ i < Len(twin.stream)
    /\ ScanStepUpTo(twin.stream[i + 1], MaxPathId)
    /\ twin' = IF pc' = "idle" THEN [twin EXCEPT !.phase = "done"] ELSE twin

\* the second scan ends where the first did
SecondEnd ==
    /\ twin.phase = "second"
    /\ i = Len(twin.stream)
    /\ (ScanEnd \/ ScanBreak)
    /\ twin' = [twin EXCEPT !.phase = "done"]

\* between two pairs of scans the tree changes and the table is pruned
PruneBetween(disk) ==
    /\ twin.phase \in {"none", "done"}
    /\ PruneDatabase(disk)
    /\ twin' = NoTwin

\* the entries of the repeated scans: files in / and in /a, with or without
\* a fingerprint, modified in one second or the next
TwinEntries ==
    {e \in Entries : /\ e.parent_path \in {<<"/">>, <<"/", "a">>}
                     /\ e.file_hash # "h2"
                     /\ e.inode = StatA.inode}

NextTwice ==
    \/ \E m \in MaxFilesValues : FirstStart(m) /\ UNCHANGED <<resolved, sessions, report>>
    \/ \E e \in TwinEntries : FirstStep(e) /\ UNCHANGED <<resolved, sessions, report>>
    \/ FirstEnd /\ UNCHANGED <<resolved, sessions, report>>
    \/ SecondStart /\ UNCHANGED <<resolved, sessions, report>>
    \/ SecondStep /\ UNCHANGED <<resolved, sessions, report>>
    \/ SecondEnd /\ UNCHANGED <<resolved, sessions, report>>
    \/ \E disk \in SUBSET RecordedPaths : PruneBetween(disk) /\ UNCHANGED <<resolved, sessions, report>>

SpecTwice == Init /\ [][NextTwice]_vars

\* ------------------------------------- the duplicate query on given tables
\* what the files of the tables of SpecDup look like
DupObserved ==
    Observed \cup {[file_hash |-> "h2", stat |-> StatB],
                   [file_hash |-> "h2", stat |-> StatD]}

\* the tables left by scans of a tree with directories /a and /b and up to
\* two files in each: a choice of what was observed of each file, if recorded
DupTablesOf(observed) ==
    LET slots == {<<d, n>> : d \in {2, 3}, n \in Names}
        SlotId(sl) == 2 * sl[1] + (IF sl[2] = "a" THEN 0 ELSE 1)
        dirs == (1 :> RootRow) @@ (2 :> DirRow(1, "a")) @@ (3 :> DirRow(1, "b"))
    IN  { dirs @@ [id \in {SlotId(sl) : sl \in DOMAIN f} |->
                     LET sl == CHOOSE x \in DOMAIN f : SlotId(x) = id
                     IN  FileRow(sl[1], Entry(<<>>, sl[2], f[sl]), f[sl].file_hash)] :
          f \in UNION {[S -> observed] : S \in SUBSET slots} }

DupTables == DupTablesOf(DupObserved)

InitDup ==
    /\ committed \in DupTables
    /\ store = committed
    /\ nextId = 8
    /\ pc = "idle"
    /\ i = 0
    /\ max_files = -1
    /\ path_cache = EmptyCache
    /\ resolved = {}
    /\ dupes = NoDupes
    /\ reported = "none"
    /\ last = "init"
    /\ twin = NoTwin
    /\ sessions = NoSessions
    /\ report = NoReport

NextDup == \E limit \in 0..MaxLimit : FindDupes(limit) /\ NoHistory

SpecDup == InitDup /\ [][NextDup]_vars

\* ------------------------------- find_dupes beside a session that deletes
\* the rank of a character of a path: '/' sorts before the letters
CharRank(c) ==
    CASE c = "/" -> 0
      [] c = "a" -> 1
      [] c = "b" -> 2
      [] OTHER -> 3

\* the characters of the string of a path: "" for no parts, "/" for the
\* root, a slash before every further part
RECURSIVE PathChars(_)
PathChars(path) ==
    IF Len(path) <= 1 THEN path
    ELSE LET front == SubSeq(path, 1, Len(path) - 1)
         IN  (IF Len(front) = 1 THEN <<>> ELSE PathChars(front))
                 \o <<"/", path[Len(path)]>>

\* the order of str on two strings given by their characters
RECURSIVE CharsLeq(_, _)
CharsLeq(x, y) ==
    IF x = <<>> THEN TRUE
    ELSE IF y = <<>> THEN FALSE
    ELSE IF CharRank(Head(x)) # CharRank(Head(y))
    THEN CharRank(Head(x)) < CharRank(Head(y))
    ELSE CharsLeq(Tail(x), Tail(y))

\* sorted(filenames)
Sorted(filenames) ==
    LET n == Len(filenames)
        perms == {f \in [1..n -> 1..n] : \A j \in 1..n : \E k \in 1..n : f[k] = j}
        inOrder == {f \in perms :
                      \A j \in 1..(n - 1) :
                          CharsLeq(PathChars(filenames[f[j]]),
                                   PathChars(filenames[f[j + 1]]))}
        f == CHOOSE g \in inOrder : TRUE
    IN  [j \in 1..n |-> filenames[f[j]]]

\* the rows of a SELECT id in ascending order of id
RECURSIVE IdsInOrder(_)
IdsInOrder(ids) ==
    IF ids = {} THEN <<>>
    ELSE LET least == CHOOSE id \in ids : \A o \in ids : id <= o
         IN  <<least>> \o IdsInOrder(ids \ {least})

\* filenames = [get_full_path_for_id(...) for record in file_records]
Listed(filenames, path) == Append(filenames, path)

\* find_dupes: find_duplicate_sets is queried; nothing to report ends it
DupesStart(limit) ==
    /\ pc = "idle"
    /\ report.pc = "none"
    /\ \E rows \in FindDuplicateSets(store, limit) :
          report' = IF rows = <<>>
                    THEN [NoReport EXCEPT !.pc = "done"]
                    ELSE [NoReport EXCEPT !.pc = "select", !.sets = rows]
    /\ last' = "dupes-start"
    /\ UNCHANGED <<committed, store, nextId, pc, i, max_files, path_cache,
                   dupes, reported>>

\* find_dupes: the ids of the records of the next set are selected
DupesSelect ==
    /\ report.pc = "select"
    /\ report' = [report EXCEPT
                     !.pc = "paths",
                     !.ids = IdsInOrder(HashRecords(store, Head(report.sets).file_hash_hex)),
                     !.filenames = <<>>]
    /\ last' = "dupes-select"
    /\ UNCHANGED <<committed, store, nextId, pc, i, max_files, path_cache,
                   dupes, reported>>

\* find_dupes: the path of the next selected record is rebuilt
DupesPath ==
    /\ report.pc = "paths"
    /\ report.ids # <<>>
    /\ LET r == GetFullPath(store, Head(report.ids), report.cache)
       IN  report' = [report EXCEPT
                         !.ids = Tail(report.ids),
                         !.filenames = Listed(report.filenames, r.path),
                         !.cache = r.cache]
    /\ last' = "dupes-path"
    /\ UNCHANGED <<committed, store, nextId, pc, i, max_files, path_cache,
                   dupes, reported>>

\* find_dupes: the line of the set is written to the report
DupesWrite ==
    /\ report.pc = "paths"
    /\ report.ids = <<>>
    /\ LET set == Head(report.sets)
           line == [hash |-> set.file_hash_hex,
                    count |-> set.duplicate_count,
                    wasted_space |-> set.total_wasted_space,
                    filenames |-> Sorted(report.filenames)]
       IN  report' = [report EXCEPT
                         !.pc = IF Tail(report.sets) = <<>> THEN "done" ELSE "select",
                         !.sets = Tail(report.sets),
                         !.filenames = <<>>,
                         !.lines = Append(report.lines, line)]
    /\ last' = "dupes-write"
    /\ UNCHANGED <<committed, store, nextId, pc, i, max_files, path_cache,
                   dupes, reported>>

\* what a scan has observed of the files of the tables reported on
GoneObserved ==
    {[file_hash |-> "h1", stat |-> StatA], [file_hash |-> "h1", stat |-> StatB],
     [file_hash |-> "h2", stat |-> StatB]}

InitGone ==
    /\ committed \in DupTablesOf(GoneObserved)
    /\ store = committed
    /\ nextId = 8
    /\ pc = "idle"
    /\ i = 0
    /\ max_files = -1
    /\ path_cache = EmptyCache
    /\ resolved = {}
    /\ dupes = NoDupes
    /\ reported = "none"
    /\ last = "init"
    /\ twin = NoTwin
    /\ sessions = NoSessions
    /\ report = NoReport

\* the statements of find_dupes, each on the table as committed when it
\* runs, beside a pruner that commits its deletions
NextGone ==
    \/ \E limit \in 1..MaxLimit : DupesStart(limit) /\ UNCHANGED <<resolved, twin, sessions>>
    \/ DupesSelect /\ UNCHANGED <<resolved, twin, sessions>>
    \/ DupesPath /\ UNCHANGED <<resolved, twin, sessions>>
    \/ DupesWrite /\ UNCHANGED <<resolved, twin, sessions>>
    \/ \E disk \in SUBSET RecordedPaths :
          PruneDatabase(disk) /\ UNCHANGED <<resolved, twin, sessions, report>>

SpecGone == InitGone /\ [][NextGone]_vars

\* ================================================================ claims
\* the row recorded for the path `parts', if any
IdsAt(st, parts) == {id \in DOMAIN st : GetFullPathForId(st, id) = parts}

FullPathOf(e) == Append(e.parent_path, e.file_name)

\* whether a proper ancestor name of the path is recorded as a file
BlockedByFile(st, parts) ==
    \E k \in 2..Len(parts) :
        \E id \in IdsAt(st, SubSeq(parts, 1, k)) : ~st[id].is_directory

\* the row carries what the entry reports
CarriesEntry(row, e) ==
    /\ row.file_hash = e.file_hash
    /\ row.file_size = e.file_size
    /\ row.modified_at = e.modified_at
    /\ row.mimetype = e.mimetype
    /\ row.device_id = e.device_id
    /\ row.inode = e.inode

C2_UpdateTrigger ==
    [][\A e \in Entries :
         (pc = "loop" /\ ScanStep(e)) =>
            \A id \in IdsAt(store, FullPathOf(e)) :
                ~store[id].is_directory =>
                    IF \/ store[id].file_hash # e.file_hash
                       \/ store[id].modified_at[1] # e.modified_at[1]
                    THEN /\ id \in DOMAIN store'
                         /\ CarriesEntry(store'[id], e)
                    ELSE /\ id \in DOMAIN store'
                         /\ store'[id] = store[id]]_vars

\* C3: at every point of a scan, handling an entry with no row at its
\* (parent, name) adds exactly one file row holding the entry's fields and
\* its fingerprint, under the row of its parent path; the other new rows are
\* the missing directories of that path, and no old row changes.
C3_InsertOnFirstSighting ==
    pc = "loop" =>
        \A e \in Entries :
            (IdsAt(store, FullPathOf(e)) = {} /\ ~BlockedByFile(store, e.parent_path)) =>
                LET r == ProcessEntry(store, nextId, path_cache, e)
                    new == DOMAIN r.store \ DOMAIN store
                    files == {id \in new : ~r.store[id].is_directory}
                IN  /\ r.op = "insert"
                    /\ Cardinality(files) = 1
                    /\ \A id \in files :
                          /\ CarriesEntry(r.store[id], e)
                          /\ r.store[id].file_name = e.file_name
                          /\ IdsAt(r.store, e.parent_path) = {r.store[id].parent_id}
                    /\ \A id \in new \ files :
                          \E k \in 2..Len(e.parent_path) :
                              GetFullPathForId(r.store, id) = SubSeq(e.parent_path, 1, k)
                    /\ \A id \in DOMAIN store :
                          id \in DOMAIN r.store /\ r.store[id] = store[id]

\* a file was inserted right after the directory made for it
C3_Witness ==
    /\ last = "insert"
    /\ (nextId - 1) \in FileIds(store)
    /\ store[nextId - 1].parent_id = nextId - 2
    /\ store[nextId - 2].is_directory
    /\ (nextId - 2) \notin DOMAIN committed \/ i = 1

\* the directory row recorded for the path `parts', if any
DirsAt(st, parts) == {id \in IdsAt(st, parts) : st[id].is_directory}

\* C4 as stated: over everything ensure_path_exists has returned, in any
\* scan, two pairs have the same path exactly when they have the same
\* identity.
C4_Original ==
    \A x, y \in resolved : (x[1] = y[1]) <=> (x[2] = y[2])

\* C4: two distinct paths never resolve to one identity, and every identity
\* ensure_path_exists has returned whose row is in the table is the
\* directory row at that path, so that the same path resolves to the same
\* identity for as long as the row it resolved to has not been rolled back.
C4_PathUniqueness ==
    /\ \A x, y \in resolved : x[2] = y[2] => x[1] = y[1]
    /\ \A x \in resolved : x[2] \in DOMAIN store => DirsAt(store, x[1]) = {x[2]}
    /\ \A p \in DOMAIN path_cache : \A x \in resolved :
          (x[1] = p /\ x[2] \in DOMAIN store) => path_cache[p] = x[2]

\* a path was resolved, its row rolled back, and resolved again to a new
\* row, while another path still resolves to its row
C4_Witness ==
    \E x, y, z \in resolved :
        /\ x[1] = y[1] /\ x[2] \notin DOMAIN store /\ y[2] \in DOMAIN store
        /\ z[1] # x[1] /\ z[2] \in DOMAIN store

\* the leading components of `parts' that exist as directories, counted
\* downwards from the row `parent_id' of component k - 1
RECURSIVE DepthFrom(_, _, _, _)
DepthFrom(st, parts, k, parent_id) ==
    IF k > Len(parts) THEN Len(parts)
    ELSE LET c == {id \in DOMAIN st : /\ st[id].parent_id = parent_id
                                      /\ st[id].file_name = parts[k]
                                      /\ st[id].is_directory}
         IN  IF c = {} THEN k - 1
             ELSE DepthFrom(st, parts, k + 1, CHOOSE id \in c : TRUE)

ExistingDepth(st, parts) ==
    IF RootIds(st) = {} THEN 0
    ELSE DepthFrom(st, parts, 2, CHOOSE id \in RootIds(st) : TRUE)

\* the result r of resolving `parts' in table st: n - k new rows, each a
\* directory under the row of the component before it, old rows untouched,
\* and the id returned is the row of the whole path
CreatesMissing(st, r, parts) ==
    LET k == ExistingDepth(st, parts)
        new == DOMAIN r.store \ DOMAIN st
    IN  /\ r.err = "none"
        /\ Cardinality(new) = Len(parts) - k
        /\ \A id \in DOMAIN st : id \in DOMAIN r.store /\ r.store[id] = st[id]
        /\ \A j \in (k + 1)..Len(parts) :
              \E id \in new :
                  /\ r.store[id].is_directory
                  /\ r.store[id].file_name = parts[j]
                  /\ {r.store[id].parent_id} = DirsAt(r.store, SubSeq(parts, 1, j - 1))
        /\ DirsAt(r.store, parts) = {r.id}

\* resolving again with the cached resolver, given a cache
SameAgain(r, parts, cache) ==
    LET s == EnsurePathExists(r.store, r.nextId, parts, cache)
    IN  s.err = "none" /\ s.id = r.id /\ s.store = r.store /\ s.nextId = r.nextId

\* resolving again with the resolver that has no cache
SameAgainCore(r, parts) ==
    LET c == EnsurePathExistsCore(r.store, r.nextId, parts)
    IN  c.err = "none" /\ c.id = r.id /\ c.store = r.store /\ c.nextId = r.nextId

\* what C5 says of one path in the current table, for both resolvers
ResolvesAsStated(p) ==
    LET r == EnsurePathExists(store, nextId, p, path_cache)
        c == EnsurePathExistsCore(store, nextId, p)
    IN  /\ CreatesMissing(store, r, p)
        /\ SameAgain(r, p, r.cache)
        /\ SameAgain(r, p, EmptyCache)
        /\ CreatesMissing(store, c, p)
        /\ SameAgainCore(c, p)

\* C5 as stated: in every table, resolving any absolute path inserts the
\* n - k missing directories and a second resolution inserts nothing.
C5_Original == \A p \in AbsPaths : ResolvesAsStated(p)

\* C5: in every table, resolving an absolute path none of whose components
\* is recorded as a file inserts exactly the n - k missing directories, each
\* the child of the component before it, and returns the deepest one;
\* resolving it again, with the same or an empty cache, inserts nothing and
\* returns the same identity.
C5_CreatesMissingAncestors ==
    \A p \in AbsPaths : ~BlockedByFile(store, p) => ResolvesAsStated(p)

\* a resolution has just created both directories of a two-level path, in
\* a table that holds a file
C5_Witness ==
    /\ last = "resolve"
    /\ \E id \in DOMAIN store :
          /\ nextId = id + 1
          /\ store[id].is_directory
          /\ Len(GetFullPathForId(store, id)) = 3
          /\ store[id].parent_id = id - 1
          /\ \E f \in FileIds(store) : f < id - 1

\* no two rows of the table share (parent_id, file_name)
NoSiblingClash(st) ==
    \A a, b \in DOMAIN st :
        (st[a].parent_id = st[b].parent_id /\ st[a].file_name = st[b].file_name)
            => a = b

\* C6: in every reachable state, of the session and of the committed table,
\* no two records share (parent_id, name), also after a name recorded as a
\* file has occurred as a directory component of a parent path.
C6_SiblingUniqueness == NoSiblingClash(store) /\ NoSiblingClash(committed)

\* a scan has just been refused the directory row for a name that the
\* table holds as a file
C6_Witness ==
    /\ last = "integrity"
    /\ \E id \in FileIds(store) : store[id].file_name \in Names
    /\ DirsAt(store, <<"/", "a">>) = {} /\ DirsAt(store, <<"/", "b">>) = {}

\* the parent_id links followed from a row to the root: their number, or -1
\* when a link leads to a missing row or the walk does not end in `fuel' steps
RECURSIVE StepsToRoot(_, _, _)
StepsToRoot(st, id, fuel) ==
    IF id \notin DOMAIN st THEN -1
    ELSE IF st[id].parent_id = NULL THEN 0
    ELSE IF fuel = 0 THEN -1
    ELSE LET up == StepsToRoot(st, st[id].parent_id, fuel - 1)
         IN  IF up < 0 THEN -1 ELSE up + 1

\* every row of the table leads to the one root
Rooted(st) ==
    /\ Cardinality(RootIds(st)) = 1
    /\ \A id \in DOMAIN st : StepsToRoot(st, id, Cardinality(DOMAIN st)) >= 0

\* C7: in every reachable state there is one root, following parent_id from
\* any record ends at it (no cycle, no missing parent), and the number of
\* steps is the depth of the record's path: for a directory, the depth of
\* the path it was resolved for.
C7_Hierarchy ==
    /\ Rooted(store) /\ Rooted(committed)
    /\ \A x \in resolved : x[2] \in DOMAIN store =>
          StepsToRoot(store, x[2], Cardinality(DOMAIN store)) = Len(x[1]) - 1
    /\ \A id \in DOMAIN store :
          StepsToRoot(store, id, Cardinality(DOMAIN store))
              = Len(GetFullPathForId(store, id)) - 1

\* a prune has removed a file and left a file three links below the root
C7_Witness ==
    /\ last = "prune"
    /\ \E id \in FileIds(store) : StepsToRoot(store, id, Cardinality(DOMAIN store)) = 3
    /\ \E x \in resolved : Len(x[1]) = 3 /\ x[2] \in DOMAIN store

\* C8: in every reachable state exactly one record has a null parent_id, and
\* it is the seeded root: no resolution or scan adds a second one and the
\* pruner never deletes it.
C8_RootInvariant ==
    /\ RootIds(store) = {1} /\ store[1] = RootRow
    /\ RootIds(committed) = {1} /\ committed[1] = RootRow

\* the pruner has deleted every file of a table that holds a directory
C8_Witness ==
    /\ last = "prune"
    /\ FileIds(store) = {}
    /\ \E id \in DOMAIN store : store[id].parent_id = 1

\* directory rows carry no hash and no size
DirsClean(st) ==
    \A id \in DOMAIN st :
        st[id].is_directory => st[id].file_hash = NoHash /\ st[id].file_size = NoVal

\* directory rows present before and after keep parent, name and kind
DirsKept(st, next) ==
    \A id \in DOMAIN st \cap DOMAIN next :
        st[id].is_directory =>
            /\ next[id].parent_id = st[id].parent_id
            /\ next[id].file_name = st[id].file_name
            /\ next[id].is_directory

\* C9: every directory record has a null hash and a null size in every
\* state, and no step changes the parent_id, name or is_directory of a
\* directory record; a scan whose entry matches a directory record writes
\* nothing into it.
C9_DirectoriesImmutable ==
    [][/\ DirsClean(store) /\ DirsClean(store')
       /\ DirsClean(committed) /\ DirsClean(committed')
       /\ DirsKept(store, store') /\ DirsKept(committed, committed')]_vars

\* a scan has just failed on an entry whose name is that of a directory:
\* nothing was rolled back and no file row lacks a hash or a time
C9_Witness ==
    /\ last = "attribute"
    /\ DOMAIN store = 1..(nextId - 1)
    /\ \A id \in FileIds(store) : ~RaisesOnRow(store[id])
    /\ \E id \in DOMAIN store : store[id].is_directory /\ store[id].parent_id # NULL

\* the hashes held by two rows that differ in (device_id, inode)
TrueDuplicates(st) ==
    {h \in {st[id].file_hash : id \in DOMAIN st} :
        /\ h # NoHash
        /\ \E a, b \in DOMAIN st :
              /\ st[a].file_hash = h /\ st[b].file_hash = h
              /\ <<st[a].device_id, st[a].inode>> # <<st[b].device_id, st[b].inode>>}

\* C10: the rows find_duplicate_sets returns name only hashes that are not
\* null and are held by rows with more than one distinct (device_id, inode)
\* pair, name no hash twice, and name every such hash unless the limit cuts
\* the result.
C10_GroupingRule ==
    last = "find" =>
        LET rows == dupes.rows
            q == TrueDuplicates(store)
        IN  /\ \A j \in 1..Len(rows) :
                  \E h \in q : rows[j].file_hash_hex = Hex(h)
            /\ \A j, k \in 1..Len(rows) :
                  rows[j].file_hash_hex = rows[k].file_hash_hex => j = k
            /\ Len(rows) = IF dupes.limit < Cardinality(q)
                           THEN dupes.limit ELSE Cardinality(q)

\* a query not cut by its limit has reported one hash and left out a hash
\* whose two rows are hard links
C10_Witness ==
    /\ last = "find"
    /\ Len(dupes.rows) = 1
    /\ dupes.limit = 2
    /\ \E a, b \in FileIds(store) :
          /\ a # b
          /\ store[a].file_hash = store[b].file_hash
          /\ store[a].file_hash # NoHash
          /\ Hex(store[a].file_hash) # dupes.rows[1].file_hash_hex

\* ---------------------------------------------------------------- C11
\* the records of the table whose hash reads `hex' in hexadecimal
RecordsOfHex(hex) ==
    {id \in DOMAIN store :
        store[id].file_hash # NoHash /\ Hex(store[id].file_hash) = hex}

\* the physical files behind those records
PairsOfHex(hex) ==
    {<<store[id].device_id, store[id].inode>> : id \in RecordsOfHex(hex)}

\* C11: every set reported by find_duplicate_sets has a duplicate_count equal
\* to the number of distinct (device_id, inode) pairs among the records of
\* its hash.
C11_CountsDistinctPairs ==
    last = "find" =>
        \A j \in 1..Len(dupes.rows) :
            dupes.rows[j].duplicate_count
                = Cardinality(PairsOfHex(dupes.rows[j].file_hash_hex))

\* ---------------------------------------------------------------- C12
HardLinked(a, b) ==
    /\ a # b
    /\ store[a].file_hash # NoHash
    /\ store[a].file_hash = store[b].file_hash
    /\ store[a].device_id = store[b].device_id
    /\ store[a].inode = store[b].inode

\* C12: no set reported by find_duplicate_sets, with the member list that
\* find_dupes builds for it, holds two records of the same hash and the same
\* (device_id, inode).
C12_NoHardLinksInSets ==
    last = "find" =>
        \A j \in 1..Len(dupes.rows) :
            \A a, b \in dupes.members[j] : ~HardLinked(a, b)

\* ---------------------------------------------------------------- C13
RECURSIVE SizeTimesCount(_, _)
\* the sum of size over the records `ids', size by size
SizeTimesCount(ids, sizes) ==
    IF sizes = {} THEN 0
    ELSE LET v == CHOOSE x \in sizes : TRUE
         IN  v * Cardinality({id \in ids : store[id].file_size = v})
               + SizeTimesCount(ids, sizes \ {v})

PlainSum(hex) ==
    SizeTimesCount(RecordsOfHex(hex),
                   {store[id].file_size : id \in RecordsOfHex(hex)})

\* C13: every set reported by find_duplicate_sets has a total_wasted_space
\* equal to the sum of size over all the records of its hash, hard-linked
\* ones included.
C13_WastedSpaceIsPlainSum ==
    last = "find" =>
        \A j \in 1..Len(dupes.rows) :
            dupes.rows[j].total_wasted_space
                = PlainSum(dupes.rows[j].file_hash_hex)

\* a reported set with two hard-linked records, whose sum is not a
\* multiple (count - 1) x size of any member's size
C13_Witness ==
    /\ last = "find"
    /\ \E j \in 1..Len(dupes.rows) :
          LET ids == RecordsOfHex(dupes.rows[j].file_hash_hex)
          IN  /\ \E a, b \in ids : HardLinked(a, b)
              /\ dupes.rows[j].total_wasted_space = PlainSum(dupes.rows[j].file_hash_hex)
              /\ \A a \in ids :
                    dupes.rows[j].total_wasted_space
                        # (Cardinality(ids) - 1) * store[a].file_size

\* ---------------------------------------------------------------- C14
\* the hexadecimal hashes of the groups that qualify as duplicate sets
QualifyingHex ==
    {hex \in {Hex(store[id].file_hash) : id \in DOMAIN store} \ {NoHash} :
        Cardinality(PairsOfHex(hex)) > 1}

ReturnedHex == {dupes.rows[j].file_hash_hex : j \in 1..Len(dupes.rows)}

\* C14: the rows returned by find_duplicate_sets(limit) are in
\* non-increasing order of total_wasted_space, are at most limit rows, and
\* no qualifying group left out has a larger wasted space than a returned
\* one.
C14_OrderAndCap ==
    last = "find" =>
        /\ \A j, k \in 1..Len(dupes.rows) :
              j < k => dupes.rows[j].total_wasted_space
                          >= dupes.rows[k].total_wasted_space
        /\ Len(dupes.rows) <= dupes.limit
        /\ \A hex \in QualifyingHex \ ReturnedHex :
              \A j \in 1..Len(dupes.rows) :
                  dupes.rows[j].total_wasted_space >= PlainSum(hex)

\* a limit of one cuts a result of two groups of different sums
C14_Witness ==
    /\ last = "find"
    /\ dupes.limit = 1
    /\ Len(dupes.rows) = 1
    /\ \E hex \in QualifyingHex \ ReturnedHex :
          PlainSum(hex) < dupes.rows[1].total_wasted_space

\* ---------------------------------------------------------------- C15
RECURSIVE Replay(_, _, _, _, _)
\* the table after the loop body has handled the first n entries of a
\* stream, from table st, without error
Replay(st, nid, cache, stream, n) ==
    IF n = 0 THEN st
    ELSE LET r == ProcessEntry(st, nid, cache, Head(stream))
         IN  Replay(r.store, r.nextId, r.cache, Tail(stream), n - 1)

\* the entries committed before the loop fails on the entry at position k
\* (counted from 0): those up to the last position that is a multiple of
\* the batch size
CommittedPrefix(k) ==
    IF k = 0 THEN 0 ELSE ((k - 1) \div BatchSize) * BatchSize + 1

FirstRunFailed == twin.phase = "between" /\ twin.failed

LoopRaised == last \in {"usage", "root", "multiple", "integrity", "attribute"}

\* C16: an error raised in the loop reaches the caller of process_directory,
\* so the scan command reports success only for a scan whose loop ended
\* without error.
C16_ErrorsSurfaced ==
    reported = "success" => ~LoopRaised

\* ---------------------------------------------------------------- C17
\* the entry's path holds no directory row and no file row stands in the
\* way of its parent path
FileSlotFree(st, e) ==
    /\ ~BlockedByFile(st, e.parent_path)
    /\ \A id \in IdsAt(st, FullPathOf(e)) : ~st[id].is_directory

\* C17: at every point of a scan, an entry whose fingerprint is absent is
\* handled without error and leaves a file row with a NULL hash at its path,
\* whether or not a row exists there and whatever hash that row stores.
C17_AbsentFingerprintGoesOn ==
    pc = "loop" =>
        \A e \in Entries :
            (e.file_hash = NoHash /\ FileSlotFree(store, e)) =>
                LET r == ProcessEntry(store, nextId, path_cache, e)
                IN  /\ r.err = "none"
                    /\ IdsAt(r.store, FullPathOf(e)) # {}
                    /\ \A id \in IdsAt(r.store, FullPathOf(e)) :
                          r.store[id].file_hash = NoHash

\* ---------------------------------------------------------------- C18
\* C18: in every table and with every cache a scan can hold, both resolvers
\* answer a path that does not start at the root with the usage error, and
\* leave the table, the identity sequence and the cache as they were; no
\* cache ever holds such a path.
C18_RejectsRelativePaths ==
    /\ \A p \in DOMAIN path_cache : p # <<>> /\ p[1] = "/"
    /\ \A p \in RelativePaths :
          LET r == EnsurePathExists(store, nextId, p, path_cache)
              c == EnsurePathExistsCore(store, nextId, p)
          IN  /\ r.err = "usage" /\ c.err = "usage"
              /\ r.store = store /\ c.store = store
              /\ r.nextId = nextId /\ c.nextId = nextId
              /\ r.cache = path_cache

\* a scan that had recorded a file has ended on a relative path
C18_Witness ==
    /\ last = "usage"
    /\ reported # "none"
    /\ FileIds(store) # {}

\* ---------------------------------------------------------------- C19
NoRootRow(st) == \A id \in DOMAIN st : st[id].parent_id # NULL

\* C19: in a table without a root both resolvers fail on every absolute
\* path without inserting a row, the loop body fails on every entry without
\* writing, and so the session never holds a row the table lacks.
C19_MissingRootIsFatal ==
    NoRootRow(store) =>
        /\ path_cache = EmptyCache
        /\ store = committed
        /\ \A p \in AbsPaths :
              LET r == EnsurePathExists(store, nextId, p, path_cache)
                  c == EnsurePathExistsCore(store, nextId, p)
              IN  /\ r.err # "none" /\ c.err # "none"
                  /\ r.store = store /\ c.store = store
                  /\ r.nextId = nextId /\ c.nextId = nextId
        /\ \A e \in PathEntries :
              LET r == ProcessEntry(store, nextId, path_cache, e)
              IN  r.err # "none" /\ r.store = store /\ r.nextId = nextId

\* a scan of an unseeded table has failed on its first entry
C19_Witness ==
    /\ last = "root"
    /\ reported # "none"
    /\ NoRootRow(store)
    /\ store = <<>>

\* ---------------------------------------------------------------- C20
\* the scan stops on an entry it leaves unhandled (the stream is longer
\* than i), or at the end of a stream of i entries
StopsBeforeEntry == ScanBreak
StopsAtEndOfStream == ScanEnd

C21_FinalCommit ==
    last \in {"end", "break"} => committed = store

\* a scan has ended on a table whose newest row is a file, one of several
C21_Witness ==
    /\ last = "end"
    /\ (nextId - 1) \in FileIds(committed)
    /\ Cardinality(FileIds(committed)) >= 2

\* ---------------------------------------------------------------- C22
\* both sessions have finished resolving the same path, which was not
\* recorded when either of them started
RacedOnNewPath ==
    /\ \A s \in Sessions : sessions[s].pc \in {"done", "failed"}
    /\ \A s \in Sessions : sessions[s].fresh
    /\ sessions[1].parts = sessions[2].parts

\* C22: when two sessions have resolved the same unrecorded path side by
\* side, both have returned the same identity, every component of the path
\* has exactly one directory row, and no two rows share (parent_id, name).
C22_AtomicCreateOrGet ==
    RacedOnNewPath =>
        /\ \A s \in Sessions : sessions[s].pc = "done"
        /\ sessions[1].result = sessions[2].result
        /\ \A k \in 2..Len(sessions[1].parts) :
              Cardinality(DirsAt(committed, SubSeq(sessions[1].parts, 1, k))) = 1
        /\ NoSiblingClash(committed)

\* ---------------------------------------------------------------- C23
\* the path of a row, rebuilt with an empty cache
PathOf(st, id) == GetFullPath(st, id, EmptyCache).path

\* the root's path is "/", any other row's is its parent's joined with its
\* name
RebuiltFromParents ==
    \A id \in DOMAIN store :
        /\ PathOf(store, id) = GetFullPathForId(store, id)
        /\ PathOf(store, id) =
              IF store[id].parent_id = NULL THEN <<"/">>
              ELSE Append(PathOf(store, store[id].parent_id), store[id].file_name)

\* whatever was memoized by one call serves the next call right
MemoizedAsRecomputed ==
    \A a, b \in DOMAIN store :
        LET first == GetFullPath(store, a, EmptyCache)
            second == GetFullPath(store, b, first.cache)
        IN  /\ second.path = PathOf(store, b)
            /\ \A id \in DOMAIN second.cache :
                  second.cache[id] = PathOf(store, id)

\* both resolvers, on path p, return a row whose rebuilt path is `back'
RoundTrip(p, back) ==
    LET r == EnsurePathExists(store, nextId, p, path_cache)
        c == EnsurePathExistsCore(store, nextId, p)
    IN  /\ r.err = "none" => PathOf(r.store, r.id) = back
        /\ c.err = "none" => PathOf(c.store, c.id) = back

PruneStep == pc = "idle" /\ last' \in {"prune", "prune-none"}

\* what C24 says of a prune when `disk' are the recorded paths that exist
PrunedAsStated(disk) ==
    LET stale == {id \in DOMAIN store :
                    ~store[id].is_directory /\ PathOf(store, id) \notin disk}
    IN  /\ DOMAIN store' = DOMAIN store \ stale
        /\ \A id \in DOMAIN store' : store'[id] = store[id]
        /\ \A id \in DOMAIN store' :
              ~store'[id].is_directory => PathOf(store', id) \in disk
        /\ IF stale = {}
           THEN store' = store /\ committed' = committed /\ last' = "prune-none"
           ELSE committed' = store' /\ last' = "prune"

\* C24: a prune leaves the file records whose rebuilt path exists on disk,
\* deletes every other file record and commits, changes no directory record
\* and no surviving file record, and with nothing stale changes nothing and
\* commits nothing.
C24_PrunerEffect ==
    [][PruneStep =>
          /\ \E disk \in SUBSET RecordedPaths : PruneDatabase(disk)
          /\ \A disk \in SUBSET RecordedPaths :
                PruneDatabase(disk) => PrunedAsStated(disk)]_vars

\* a prune has deleted a file record and left another
C24_Witness ==
    /\ last = "prune"
    /\ FileIds(store) # {}
    /\ store = committed
    /\ nextId > Cardinality(DOMAIN store) + 1

\* ---------------------------------------------------------------- C25
\* C25: at every point of a scan, an entry that is handled by an update
\* changes one row, a file row at the entry's path, which keeps its id,
\* parent_id, name and is_directory and takes the entry's values; no row is
\* added or removed and no other row changes.
C25_UpdateFrame ==
    pc = "loop" =>
        \A e \in Entries :
            LET r == ProcessEntry(store, nextId, path_cache, e)
                changed == {id \in DOMAIN store : r.store[id] # store[id]}
            IN  r.op = "update" =>
                    /\ DOMAIN r.store = DOMAIN store
                    /\ r.nextId = nextId
                    /\ Cardinality(changed) = 1
                    /\ \A id \in changed :
                          /\ r.store[id].parent_id = store[id].parent_id
                          /\ r.store[id].file_name = store[id].file_name
                          /\ r.store[id].is_directory = store[id].is_directory
                          /\ ~store[id].is_directory
                          /\ GetFullPathForId(store, id) = FullPathOf(e)
                          /\ CarriesEntry(r.store[id], e)

\* a file was updated in a table that holds another file
C25_Witness ==
    /\ last = "update"
    /\ Cardinality(FileIds(store)) = 2
    /\ Cardinality(DOMAIN store) = nextId - 1

\* ---------------------------------------------------------------- C26
\* the rows the session has written and not committed
Uncommitted == DOMAIN store \ DOMAIN committed

\* C26: in the scan of a fresh table, when i entries have been handled the
\* committed table holds the first entry and every entry up to the last one
\* whose position is a multiple of the batch size, and no other; so at most
\* a batch of entries is uncommitted.
C26_BatchBoundary ==
    (pc = "loop" /\ i > 0) =>
        /\ Cardinality(FileIds(store)) = i
        /\ Cardinality(FileIds(committed)) = ((i - 1) \div BatchSize) * BatchSize + 1
        /\ Cardinality(Uncommitted) <= BatchSize

\* a full batch is uncommitted but for its last entry
C26_Witness ==
    /\ pc = "loop"
    /\ i = 2 * BatchSize
    /\ Cardinality(Uncommitted) = BatchSize - 1
    /\ Cardinality(FileIds(committed)) = BatchSize + 1

\* ---------------------------------------------------------------- C27
\* the row a cache entry names is a directory whose names from the root
\* spell the entry's path
Coherent(st, cache, p) ==
    /\ IsAbsolute(p)
    /\ cache[p] \in DOMAIN st
    /\ st[cache[p]].is_directory
    /\ GetFullPathForId(st, cache[p]) = p
    /\ p = <<"/">> => cache[p] \in RootIds(st)

\* C27: at every point of a scan every entry of the cache is coherent with
\* the session's table, and resolving the entry's path with an empty cache
\* returns the same identity and inserts nothing.
C27_CacheCoherence ==
    pc = "loop" =>
        \A p \in DOMAIN path_cache :
            /\ Coherent(store, path_cache, p)
            /\ LET r == EnsurePathExists(store, nextId, p, EmptyCache)
               IN  r.err = "none" /\ r.id = path_cache[p] /\ r.store = store

\* a scan holds the root, a directory and a directory in it in its cache
C27_Witness ==
    /\ pc = "loop"
    /\ i >= 2
    /\ <<"/">> \in DOMAIN path_cache
    /\ \E p \in DOMAIN path_cache :
          Len(p) = 3 /\ SubSeq(p, 1, 2) \in DOMAIN path_cache

\* ---------------------------------------------------------------- C28
\* on path p, from the current table, the resolver with the scan's cache and
\* the resolver without a cache fail together or return the same identity,
\* and leave the same table and the same identity sequence
SameAsUncached(p) ==
    LET r == EnsurePathExists(store, nextId, p, path_cache)
        c == EnsurePathExistsCore(store, nextId, p)
    IN  /\ (r.err = "none") <=> (c.err = "none")
        /\ r.id = c.id
        /\ r.store = c.store
        /\ r.nextId = c.nextId

\* C28: at every point of a scan, with the cache the scan has built since
\* it started with an empty one, the next resolution of any path gives the
\* same result and the same table with and without the cache; so the two
\* resolvers agree on every sequence of paths.
C28_CacheIsOptimisation ==
    pc = "loop" =>
        \A p \in AbsPaths \cup SlashedPaths \cup RelativePaths : SameAsUncached(p)

\* a scan has cached a directory under which the next path needs an insert
C28_Witness ==
    /\ pc = "loop"
    /\ last = "insert"
    /\ \E p \in AbsPaths :
          /\ Len(p) = 3
          /\ p \notin DOMAIN path_cache
          /\ SubSeq(p, 1, 2) \in DOMAIN path_cache
          /\ EnsurePathExists(store, nextId, p, path_cache).nextId = nextId + 1

\* ---------------------------------------------------------------- C29
\* C29: at every point of a scan, once an entry has been handled without
\* error the row at its path holds the device_id, inode and size that the
\* entry reports (no later entry of the scan is for the same file, so the
\* row holds them when the scan ends).
C29_PhysicalIdentityCurrent ==
    pc = "loop" =>
        \A e \in Entries :
            LET r == ProcessEntry(store, nextId, path_cache, e)
            IN  r.err = "none" =>
                    \A id \in IdsAt(r.store, FullPathOf(e)) :
                        /\ r.store[id].device_id = e.device_id
                        /\ r.store[id].inode = e.inode
                        /\ r.store[id].file_size = e.file_size

\* ---------------------------------------------------------------- C30
\* C30: for an identity that is not in the table (and not cached),
\* get_full_path_for_id returns the empty path and the cache it was given;
\* no line of the find_dupes report lists the empty path of such a record;
\* and deleting an identity that is already gone leaves the table as it is,
\* so the pruner's DELETE does not fail on it.
C30_MissingIdentitySkipped ==
    /\ \A id \in (1..8) \ (DOMAIN store \cup DOMAIN report.cache) :
          /\ GetFullPath(store, id, report.cache) = [path |-> <<>>, cache |-> report.cache]
          /\ DeleteRows(store, {id}) = store
    /\ \A j \in 1..Len(report.lines) :
          \A k \in 1..Len(report.lines[j].filenames) :
              report.lines[j].filenames[k] # <<>>

====
